---------------------------- MODULE Spec2Model ----------------------------
(***************************************************************************)
(* The deployment-variable resource of the Bitbucket Terraform provider    *)
(* (bitbucket/resource_deployment_variable.go): the four lifecycle         *)
(* handlers Create, Read, Update and Delete acting on a local record       *)
(* (schema.ResourceData) through an HTTP collaborator (Client).            *)
(*                                                                         *)
(* Strings that are formatted into request paths (uuid, deployment) are    *)
(* sequences of one-character strings, so that fmt.Sprintf and             *)
(* strings.SplitN are computed, not assumed.  Response bodies are JSON     *)
(* values (abstract syntax), decoded field by field as encoding/json does. *)
(***************************************************************************)
EXTENDS Integers, Sequences, FiniteSets, TLC

VARIABLES
    d,      \* the local record (schema.ResourceData): id and the schema fields
    op,     \* the handler that ran last
    pre,    \* the local record as it was when that handler was entered
    ret,    \* what that handler returned (an error value, "nil", or a panic)
    calls,  \* the collaborator calls and sleeps that handler made, in order
    wr,     \* what the collaborator answered to its write request (POST/PUT/DELETE)
    gr,     \* what the collaborator answered to its collection GET
    rd,     \* the local record as it was when Read was entered (directly or nested)
    again   \* TRUE iff that handler was a Read directly following a Read with the same GET answer

vars == <<d, op, pre, ret, calls, wr, gr, rd, again>>

-----------------------------------------------------------------------------
(* Bounds *)

MaxValues == 2      \* longest "values" array in a listing

-----------------------------------------------------------------------------
(* Values *)

NoErr == "nil"
Panic == "panic"
ErrTransport == "transport error"
ErrReadAll == "ioutil.ReadAll error"
ErrUnmarshal == "json.Unmarshal error"

EmptyString == <<>>

UUIDs == { <<>>, <<"a">>, <<"%","b">> }

\* "r:d:e" (split on the first colon only) and "r" (no colon)
DeploymentIds == { <<"r",":","d",":","e">>, <<"r">> }

\* what the configuration may ask for: key, value, secured
Configs == { <<"k1", "v1", FALSE>>, <<"k2", "v2", TRUE>> }

\* JSON abstract syntax
JNull == [t |-> "null"]
JInvalid == [t |-> "invalid"]       \* bytes that are not JSON
JStr(s) == [t |-> "str", v |-> s]
JBool(b) == [t |-> "bool", v |-> b]
JNum(n) == [t |-> "num", v |-> n]
JArr(s) == [t |-> "arr", v |-> s]
JObj(f) == [t |-> "obj", v |-> f]

NilResponse == [nil |-> TRUE]
Response(status, body) == [nil |-> FALSE, StatusCode |-> status, Body |-> body]
Readable(j) == [readErr |-> FALSE, json |-> j]
Unreadable == [readErr |-> TRUE, json |-> JNull]

NoCall == [issued |-> FALSE]
Answer(resp, err) == [issued |-> TRUE, resp |-> resp, err |-> err]
NoRead == [called |-> FALSE]

-----------------------------------------------------------------------------
(* fmt.Sprintf on strings, as far as the handlers use it *)

CollectionFormat == <<"2",".","0","/","r","e","p","o","s","i","t","o","r","i","e","s","/","%","s","/","d","e","p","l","o","y","m","e","n","t","s","_","c","o","n","f","i","g","/","e","n","v","i","r","o","n","m","e","n","t","s","/","%","s","/","v","a","r","i","a","b","l","e","s">>
ItemFormat == <<"2",".","0","/","r","e","p","o","s","i","t","o","r","i","e","s","/","%","s","/","d","e","p","l","o","y","m","e","n","t","s","_","c","o","n","f","i","g","/","e","n","v","i","r","o","n","m","e","n","t","s","/","%","s","/","v","a","r","i","a","b","l","e","s","/","%","s">>

NoVerbString == <<"%","!","(","N","O","V","E","R","B",")">>
MissingString == <<"(","M","I","S","S","I","N","G",")">>
FlagChars == { "#", "0", "+", "-", " " }
DigitChars == { "0", "1", "2", "3", "4", "5", "6", "7", "8", "9" }

RECURSIVE SkipChars(_, _, _)
SkipChars(format, i, set) ==
    IF i <= Len(format) /\ format[i] \in set
    THEN SkipChars(format, i + 1, set)
    ELSE i

\* index of the verb of the directive whose "%" is at i - 1: past the flags,
\* the width and the precision ("[n]" and "*" do not occur in this model)
VerbIndex(format, i) ==
    LET w == SkipChars(format, SkipChars(format, i, FlagChars), DigitChars)
    IN IF w <= Len(format) /\ format[w] = "."
       THEN SkipChars(format, w + 1, DigitChars)
       ELSE w

MissingArg(verb) == <<"%", "!", verb>> \o MissingString
BadVerb(verb, arg) ==
    <<"%", "!", verb, "(", "s", "t", "r", "i", "n", "g", "=">> \o arg \o <<")">>

RECURSIVE doPrintf(_, _, _, _)
doPrintf(format, a, i, argNum) ==
    IF i > Len(format) THEN <<>>
    ELSE IF format[i] # "%" THEN <<format[i]>> \o doPrintf(format, a, i + 1, argNum)
    ELSE LET j == VerbIndex(format, i + 1)
         IN IF j > Len(format) THEN NoVerbString
            ELSE IF format[j] = "%" THEN <<"%">> \o doPrintf(format, a, j + 1, argNum)
            ELSE IF argNum > Len(a)
                 THEN MissingArg(format[j]) \o doPrintf(format, a, j + 1, argNum)
            ELSE IF format[j] \in { "s", "v" }
                 THEN a[argNum] \o doPrintf(format, a, j + 1, argNum + 1)
            ELSE BadVerb(format[j], a[argNum]) \o doPrintf(format, a, j + 1, argNum + 1)

Sprintf(format, a) == doPrintf(format, a, 1, 1)

-----------------------------------------------------------------------------
(* strings.SplitN(str, ":", 2) and parseDeploymentId *)

RECURSIVE IndexFrom(_, _, _)
IndexFrom(str, c, i) ==
    IF i > Len(str) THEN 0
    ELSE IF str[i] = c THEN i
    ELSE IndexFrom(str, c, i + 1)

SplitN2(str, c) ==
    LET i == IndexFrom(str, c, 1)
    IN IF i = 0 THEN <<str>>
       ELSE <<SubSeq(str, 1, i - 1), SubSeq(str, i + 1, Len(str))>>

\* parts[1] is out of range when the string has no colon: the handler panics
parseDeploymentId(str) ==
    LET parts == SplitN2(str, ":")
    IN IF Len(parts) < 2
       THEN [ok |-> FALSE]
       ELSE [ok |-> TRUE, repository |-> parts[1], deployment |-> parts[2]]

-----------------------------------------------------------------------------
(* encoding/json on DeploymentVariable and PaginatedDeploymentVariables *)

DeploymentVariable(key, value, uuid, secured) ==
    [Key |-> key, Value |-> value, UUID |-> uuid, Secured |-> secured]

HasField(o, name) == name \in DOMAIN o /\ o[name].t # "null"

\* a field of the wrong JSON type is an UnmarshalTypeError
FieldOK(o, name, type) == HasField(o, name) => o[name].t = type
Field(o, name, zero) == IF HasField(o, name) THEN o[name].v ELSE zero

VariableTypesOK(j) ==
    \/ j.t = "null"
    \/ /\ j.t = "obj"
       /\ FieldOK(j.v, "key", "str")
       /\ FieldOK(j.v, "value", "str")
       /\ FieldOK(j.v, "uuid", "str")
       /\ FieldOK(j.v, "secured", "bool")

DecodeVariable(j) ==
    IF j.t = "null" THEN DeploymentVariable("", "", EmptyString, FALSE)
    ELSE DeploymentVariable(Field(j.v, "key", ""), Field(j.v, "value", ""),
                            Field(j.v, "uuid", EmptyString), Field(j.v, "secured", FALSE))

UnmarshalDeploymentVariable(j) ==
    IF VariableTypesOK(j)
    THEN [err |-> NoErr, rv |-> DecodeVariable(j)]
    ELSE [err |-> ErrUnmarshal, rv |-> DecodeVariable(JNull)]

PaginatedTypesOK(j) ==
    \/ j.t = "null"
    \/ /\ j.t = "obj"
       /\ FieldOK(j.v, "values", "arr")
       /\ FieldOK(j.v, "page", "num")
       /\ FieldOK(j.v, "size", "num")
       /\ FieldOK(j.v, "next", "str")
       /\ HasField(j.v, "values") =>
              \A i \in 1..Len(j.v["values"].v) : VariableTypesOK(j.v["values"].v[i])

DecodePaginated(j) ==
    IF j.t = "null" THEN [Values |-> <<>>, Size |-> 0]
    ELSE [Values |-> IF HasField(j.v, "values")
                     THEN [i \in 1..Len(j.v["values"].v) |-> DecodeVariable(j.v["values"].v[i])]
                     ELSE <<>>,
          Size |-> Field(j.v, "size", 0)]

UnmarshalPaginated(j) ==
    IF PaginatedTypesOK(j)
    THEN [err |-> NoErr, prv |-> DecodePaginated(j)]
    ELSE [err |-> ErrUnmarshal, prv |-> DecodePaginated(JNull)]

\* json.Marshal of a DeploymentVariable: strings and a bool always encode;
\* "uuid" is omitted when empty
Marshal(v) ==
    [err |-> NoErr,
     data |-> JObj(IF v.UUID = EmptyString
                   THEN [key |-> JStr(v.Key), value |-> JStr(v.Value), secured |-> JBool(v.Secured)]
                   ELSE [key |-> JStr(v.Key), value |-> JStr(v.Value), uuid |-> JStr(v.UUID),
                         secured |-> JBool(v.Secured)])]

-----------------------------------------------------------------------------
(* schema.ResourceData *)

SetId(d0, id) == [d0 EXCEPT !.id = id]

newDeploymentVariableFromResource(d0) ==
    DeploymentVariable(d0.key, d0.value, EmptyString, d0.secured)

\* the paths, tabulated once over the deployment ids and uuids of the model
ParsedIds == { parseDeploymentId(str) : str \in { s \in DeploymentIds : parseDeploymentId(s).ok } }

CollectionPaths ==
    [p \in ParsedIds |-> Sprintf(CollectionFormat, <<p.repository, p.deployment>>)]

ItemPaths ==
    [p \in ParsedIds, uuid \in UUIDs |-> Sprintf(ItemFormat, <<p.repository, p.deployment, uuid>>)]

\* Delete formats the formatted path a second time, with no operands
DeletePaths ==
    [p \in ParsedIds, uuid \in UUIDs |-> Sprintf(ItemPaths[p, uuid], <<>>)]

CollectionPath(p) == CollectionPaths[p]
ItemPath(p, uuid) == ItemPaths[p, uuid]
DeletePath(p, uuid) == DeletePaths[p, uuid]

Call(method, path, body) == [method |-> method, path |-> path, body |-> body]
Sleep(ms) == [method |-> "time.Sleep", ms |-> ms]
PostCreateDelay == 5000

Outcome(d1, r, cs, w, g, r0) ==
    [d |-> d1, ret |-> r, calls |-> cs, wr |-> w, gr |-> g, rd |-> r0]

-----------------------------------------------------------------------------
(* resourceDeploymentVariableRead *)

LocalUUID_Identity(d0) == d0.id

\* the uuid the listing is scanned for
LocalUUID(d0) == d0.uuid

SizeAbsent_Negative(size) == size < 0

SizeAbsent(size) == size < 1

IsOK(status) == status = 200

IsNotFound_AnyFailure(status) == status # 200

IsNotFound(status) == status = 404

\* index of the first entry with that uuid, 0 when there is none
RECURSIVE ScanFrom(_, _, _)
ScanFrom(values, uuid, i) ==
    IF i > Len(values) THEN 0
    ELSE IF values[i].UUID = uuid THEN i
    ELSE ScanFrom(values, uuid, i + 1)

RECURSIVE ScanBack(_, _, _)
ScanBack(values, uuid, i) ==
    IF i < 1 THEN 0
    ELSE IF values[i].UUID = uuid THEN i
    ELSE ScanBack(values, uuid, i - 1)

ScanValues_Last(values, uuid) == ScanBack(values, uuid, Len(values))

ScanValues(values, uuid) == ScanFrom(values, uuid, 1)

CopyEntry(d0, rv) ==
    [SetId(d0, rv.UUID) EXCEPT !.key = rv.Key, !.value = rv.Value, !.secured = rv.Secured]

\* the record and the return value once the GET has answered with a response
ReadResponse(d0, resp) ==
    IF IsOK(resp.StatusCode)
    THEN IF resp.Body.readErr
         THEN [d |-> d0, ret |-> ErrReadAll]
         ELSE LET u == UnmarshalPaginated(resp.Body.json)
              IN IF u.err # NoErr
                 THEN [d |-> d0, ret |-> u.err]
                 ELSE IF SizeAbsent(u.prv.Size)
                      THEN [d |-> SetId(d0, EmptyString), ret |-> NoErr]
                      ELSE LET i == ScanValues(u.prv.Values, LocalUUID(d0))
                           IN IF i # 0
                              THEN [d |-> CopyEntry(d0, u.prv.Values[i]), ret |-> NoErr]
                              ELSE [d |-> SetId(d0, EmptyString), ret |-> NoErr]
    ELSE IF IsNotFound(resp.StatusCode)
         THEN [d |-> SetId(d0, EmptyString), ret |-> NoErr]
         ELSE [d |-> d0, ret |-> NoErr]

\* get is what the collaborator answers to the GET; its error is discarded,
\* and a nil response is dereferenced
resourceDeploymentVariableRead(d0, get) ==
    LET p == parseDeploymentId(d0.deployment)
        r0 == [called |-> TRUE, d |-> d0]
    IN IF ~p.ok
       THEN Outcome(d0, Panic, <<>>, NoCall, NoCall, r0)
       ELSE LET cs == <<Call("GET", CollectionPath(p), JNull)>>
            IN IF get.resp.nil
               THEN Outcome(d0, Panic, cs, NoCall, get, r0)
               ELSE LET r == ReadResponse(d0, get.resp)
                    IN Outcome(r.d, r.ret, cs, NoCall, get, r0)

-----------------------------------------------------------------------------
(* resourceDeploymentVariableCreate *)

CreateStore_NoSetId(d0, rv) == [d0 EXCEPT !.uuid = rv.UUID]

CreateStore_NoUuid(d0, rv) == SetId(d0, rv.UUID)

CreateStore(d0, rv) == [SetId(d0, rv.UUID) EXCEPT !.uuid = rv.UUID]

CreateReconcile_Skipped(d1, get) == Outcome(d1, NoErr, <<>>, NoCall, NoCall, NoRead)

CreateReconcile(d1, get) == resourceDeploymentVariableRead(d1, get)

Returned(o) == [done |-> TRUE, out |-> o]
Proceeds(d1, cs) == [done |-> FALSE, d |-> d1, calls |-> cs]

\* up to the sleep: either the handler has returned, or it goes on to Read
CreateWrite(d0, post) ==
    LET m == Marshal(newDeploymentVariableFromResource(d0))
        p == parseDeploymentId(d0.deployment)
    IN IF m.err # NoErr THEN Returned(Outcome(d0, m.err, <<>>, NoCall, NoCall, NoRead))
       ELSE IF ~p.ok THEN Returned(Outcome(d0, Panic, <<>>, NoCall, NoCall, NoRead))
       ELSE LET cs == <<Call("POST", CollectionPath(p), m.data)>>
            IN IF post.err # NoErr
               THEN Returned(Outcome(d0, post.err, cs, post, NoCall, NoRead))
               ELSE IF post.resp.Body.readErr
                    THEN Returned(Outcome(d0, ErrReadAll, cs, post, NoCall, NoRead))
               ELSE LET u == UnmarshalDeploymentVariable(post.resp.Body.json)
                    IN IF u.err # NoErr
                       THEN Returned(Outcome(d0, u.err, cs, post, NoCall, NoRead))
                       ELSE Proceeds(CreateStore(d0, u.rv), cs \o <<Sleep(PostCreateDelay)>>)

resourceDeploymentVariableCreate(d0, post, get) ==
    LET w == CreateWrite(d0, post)
    IN IF w.done THEN w.out
       ELSE LET r == CreateReconcile(w.d, get)
            IN Outcome(r.d, r.ret, w.calls \o r.calls, post, r.gr, r.rd)

-----------------------------------------------------------------------------
(* resourceDeploymentVariableUpdate *)

UpdateSucceeded_Always(status) == TRUE

UpdateSucceeded(status) == status = 200

\* up to the status check: either the handler has returned, or it goes on to Read
UpdateWrite(d0, put) ==
    LET m == Marshal(newDeploymentVariableFromResource(d0))
        p == parseDeploymentId(d0.deployment)
    IN IF m.err # NoErr THEN Returned(Outcome(d0, m.err, <<>>, NoCall, NoCall, NoRead))
       ELSE IF ~p.ok THEN Returned(Outcome(d0, Panic, <<>>, NoCall, NoCall, NoRead))
       ELSE LET cs == <<Call("PUT", ItemPath(p, d0.uuid), m.data)>>
            IN IF put.err # NoErr
               THEN Returned(Outcome(d0, put.err, cs, put, NoCall, NoRead))
               ELSE IF ~UpdateSucceeded(put.resp.StatusCode)
                    THEN Returned(Outcome(d0, NoErr, cs, put, NoCall, NoRead))
               ELSE Proceeds(d0, cs)

resourceDeploymentVariableUpdate(d0, put, get) ==
    LET w == UpdateWrite(d0, put)
    IN IF w.done THEN w.out
       ELSE LET r == resourceDeploymentVariableRead(w.d, get)
            IN Outcome(r.d, r.ret, w.calls \o r.calls, put, r.gr, r.rd)

-----------------------------------------------------------------------------
(* resourceDeploymentVariableDelete *)

resourceDeploymentVariableDelete(d0, del) ==
    LET p == parseDeploymentId(d0.deployment)
    IN IF ~p.ok THEN Outcome(d0, Panic, <<>>, NoCall, NoCall, NoRead)
       ELSE Outcome(d0, del.err, <<Call("DELETE", DeletePath(p, d0.uuid), JNull)>>,
                    del, NoCall, NoRead)

-----------------------------------------------------------------------------
(* What the collaborator may answer *)

RECURSIVE SeqsUpTo(_, _)
SeqsUpTo(S, n) ==
    IF n = 0 THEN { <<>> }
    ELSE LET shorter == SeqsUpTo(S, n - 1)
         IN shorter \cup { Append(s, x) : s \in { t \in shorter : Len(t) = n - 1 }, x \in S }

JVar(uuid, key, value, secured) ==
    JObj([uuid |-> JStr(uuid), key |-> JStr(key), value |-> JStr(value), secured |-> JBool(secured)])

JVars ==
    { JVar(<<"a">>, "k1", "v1", FALSE),
      JVar(<<"a">>, "k2", "v2", TRUE),
      JObj([key |-> JStr("k2"), value |-> JStr("v1"), secured |-> JBool(FALSE)]) }

\* "size" is only ever tested by size < 1: one value on each side, whatever
\* "values" holds
Sizes == { 0, 1 }

Listings ==
    { JObj([values |-> JArr(s), size |-> JNum(n)]) : s \in SeqsUpTo(JVars, MaxValues), n \in Sizes }

EmptyBody == Readable(JInvalid)

GetBodies ==
    { Readable(l) : l \in Listings }
        \cup { Unreadable, Readable(JInvalid),
               Readable(JObj([size |-> JStr("1")])),
               Readable(JObj([key |-> JStr("k2"), value |-> JStr("v1"), secured |-> JBool(FALSE)])) }

GetResponses ==
    { Response(200, b) : b \in GetBodies }
        \cup { Response(s, EmptyBody) : s \in { 401, 404, 500 } }

\* a collaborator that reports no error hands over a response; one that
\* reports an error may or may not
GetAnswers ==
    { Answer(r, NoErr) : r \in GetResponses }
        \cup { Answer(NilResponse, ErrTransport) }
        \cup { Answer(Response(s, EmptyBody), ErrTransport) : s \in { 404, 500 } }
        \cup { Answer(Response(200, Readable(JObj([values |-> JArr(<<v>>), size |-> JNum(1)]))),
                       ErrTransport) : v \in JVars }

PostBodies ==
    { Readable(JVar(<<"a">>, "k1", "v1", FALSE)),
      Readable(JVar(<<"%","b">>, "k1", "v1", FALSE)),
      Readable(JObj([uuid |-> JNum(1), key |-> JStr("k1")])),
      Readable(JInvalid),
      Unreadable }

PostAnswers ==
    { Answer(Response(201, b), NoErr) : b \in PostBodies }
        \cup { Answer(Response(400, Readable(JObj([type |-> JStr("error")]))), NoErr),
               Answer(Response(400, EmptyBody), ErrTransport),
               Answer(NilResponse, ErrTransport) }

PutAnswers ==
    { Answer(Response(s, EmptyBody), NoErr) : s \in { 200, 404, 500 } }
        \cup { Answer(Response(500, EmptyBody), ErrTransport),
               Answer(NilResponse, ErrTransport) }

DeleteAnswers ==
    { Answer(Response(s, EmptyBody), NoErr) : s \in { 204, 404 } }
        \cup { Answer(Response(404, EmptyBody), ErrTransport),
               Answer(NilResponse, ErrTransport) }

-----------------------------------------------------------------------------
(* The state machine *)

\* a fresh record: no identity, no uuid, the configured fields
Init ==
    /\ d \in { [id |-> EmptyString, uuid |-> EmptyString, key |-> c[1], value |-> c[2],
                secured |-> c[3], deployment |-> dep] :
               c \in Configs, dep \in DeploymentIds }
    /\ op = "new"
    /\ pre = d
    /\ ret = NoErr
    /\ calls = <<>>
    /\ wr = NoCall
    /\ gr = NoCall
    /\ rd = NoRead
    /\ again = FALSE

\* the framework keeps the record a handler leaves behind when it returns; a
\* handler that panics takes the plugin process down, and what it had written
\* to the record goes with it
Ran(name, o) ==
    /\ op' = name
    /\ pre' = d
    /\ d' = (IF o.ret = Panic THEN d ELSE o.d)
    /\ ret' = o.ret
    /\ calls' = o.calls
    /\ wr' = o.wr
    /\ gr' = o.gr
    /\ rd' = o.rd
    /\ again' = (name = "Read" /\ op = "Read" /\ o.gr = gr)

\* the framework writes the configured key, value and secured into the record
Configure ==
    \E c \in Configs :
        /\ c # <<d.key, d.value, d.secured>>
        /\ Ran("Configure", Outcome([d EXCEPT !.key = c[1], !.value = c[2], !.secured = c[3]],
                                    NoErr, <<>>, NoCall, NoCall, NoRead))

\* a GET answer is drawn only when the handler gets as far as the GET
CallCreate ==
    \E post \in PostAnswers :
        \E get \in (IF CreateWrite(d, post).done THEN { NoCall } ELSE GetAnswers) :
            Ran("Create", resourceDeploymentVariableCreate(d, post, get))

CallRead ==
    \E get \in GetAnswers :
        Ran("Read", resourceDeploymentVariableRead(d, get))

CallUpdate ==
    \E put \in PutAnswers :
        \E get \in (IF UpdateWrite(d, put).done THEN { NoCall } ELSE GetAnswers) :
            Ran("Update", resourceDeploymentVariableUpdate(d, put, get))

CallDelete ==
    \E del \in DeleteAnswers :
        Ran("Delete", resourceDeploymentVariableDelete(d, del))

Next == Configure \/ CallCreate \/ CallRead \/ CallUpdate \/ CallDelete

Spec == Init /\ [][Next]_vars

-----------------------------------------------------------------------------
(* Vocabulary of the properties *)

Methods(cs) == [i \in 1..Len(cs) |-> cs[i].method]
IssuedGet == \E i \in 1..Len(calls) : calls[i].method = "GET"

\* the write request was answered without a transport error
WriteAnswered == wr.issued /\ wr.err = NoErr

\* the POST answer carried a body that decodes to a variable
PostDecoded ==
    /\ op = "Create"
    /\ WriteAnswered
    /\ ~wr.resp.Body.readErr
    /\ UnmarshalDeploymentVariable(wr.resp.Body.json).err = NoErr

PostedUUID == UnmarshalDeploymentVariable(wr.resp.Body.json).rv.UUID

\* Read got a response to look at
GetAnswered == rd.called /\ gr.issued /\ ~gr.resp.nil

\* ... with status 200 and a body that decodes to a listing
GotListing ==
    /\ GetAnswered
    /\ gr.resp.StatusCode = 200
    /\ ~gr.resp.Body.readErr
    /\ UnmarshalPaginated(gr.resp.Body.json).err = NoErr

ListedSize == UnmarshalPaginated(gr.resp.Body.json).prv.Size
ListedValues == UnmarshalPaginated(gr.resp.Body.json).prv.Values
EntriesWith(uuid) == { i \in 1..Len(ListedValues) : ListedValues[i].UUID = uuid }
First(S) == CHOOSE i \in S : \A j \in S : i <= j

\* the listing answers "absent" for that uuid
ListedAbsent(uuid) ==
    \/ GetAnswered /\ gr.resp.StatusCode = 404
    \/ GotListing /\ (ListedSize < 1 \/ EntriesWith(uuid) = {})

WellFormed(str) == \E i \in 1..Len(str) : str[i] = ":"

-----------------------------------------------------------------------------
(* C1 *)

\* C1: in every operation a transport error of the collaborator, or an error
\* reading or decoding a body, is returned as the operation's error and the
\* operation stops there; in particular a transport error of Read's GET is
\* returned by Read and the record is left as Read found it.
C1_ErrorsPropagate ==
    /\ (wr.issued /\ wr.err # NoErr) => (ret = wr.err /\ ~IssuedGet /\ d = pre)
    /\ (gr.issued /\ gr.err # NoErr) => (ret = gr.err /\ d = rd.d)
    /\ (op = "Create" /\ WriteAnswered /\ wr.resp.Body.readErr) => (ret = ErrReadAll /\ ~IssuedGet)
    /\ (op = "Create" /\ WriteAnswered /\ ~wr.resp.Body.readErr /\ ~PostDecoded)
           => (ret = ErrUnmarshal /\ ~IssuedGet)
    /\ (GetAnswered /\ gr.err = NoErr /\ gr.resp.StatusCode = 200 /\ gr.resp.Body.readErr)
           => ret = ErrReadAll
    /\ (GetAnswered /\ gr.err = NoErr /\ gr.resp.StatusCode = 200 /\ ~gr.resp.Body.readErr
            /\ ~GotListing) => ret = ErrUnmarshal

-----------------------------------------------------------------------------
(* C2 *)

\* C2 (as claimed): when the POST is answered with a body that decodes to a
\* variable with uuid u1, then after Create returns the identity is u1 and Create
\* made exactly the calls POST, sleep, GET in that order.
C2_CreateIdentityIsPosted ==
    (PostDecoded /\ PostedUUID # EmptyString /\ ret # Panic)
        => (d.id = PostedUUID /\ Methods(calls) = <<"POST", "time.Sleep", "GET">>)

\* C2 (amended): under the same condition the uuid field is u1, the identity
\* is u1 unless the confirmatory Read found u1 absent (status 404, or a listing
\* with size < 1 or without an entry of uuid u1) and is empty then, and Create
\* made exactly the calls POST, sleep, GET in that order.
C2_CreateIdentityAfterRead ==
    (PostDecoded /\ PostedUUID # EmptyString /\ ret # Panic)
        => /\ d.uuid = PostedUUID
           /\ d.id = (IF ListedAbsent(PostedUUID) THEN EmptyString ELSE PostedUUID)
           /\ Methods(calls) = <<"POST", "time.Sleep", "GET">>
           /\ calls[2].ms = PostCreateDelay

C2_Witness ==
    /\ PostDecoded /\ PostedUUID # EmptyString /\ ret = NoErr
    /\ GotListing /\ ListedSize >= 1 /\ EntriesWith(PostedUUID) # {}
    /\ pre.id = EmptyString
    /\ d.id = PostedUUID
    /\ d.key # pre.key

-----------------------------------------------------------------------------
(* C3 *)

\* C3: when Read gets status 200 with a listing of size >= 1 that has an entry
\* with the record's uuid, the record's key, value, secured, uuid and identity
\* are those of the first such entry, and Read returns no error.
C3_ReadCopiesFirstMatch ==
    (GotListing /\ ListedSize >= 1 /\ EntriesWith(rd.d.uuid) # {})
        => LET rv == ListedValues[First(EntriesWith(rd.d.uuid))]
           IN /\ d.key = rv.Key
              /\ d.value = rv.Value
              /\ d.secured = rv.Secured
              /\ d.uuid = rv.UUID
              /\ d.id = rv.UUID
              /\ d.deployment = rd.d.deployment
              /\ ret = NoErr

C3_Witness ==
    /\ op = "Read"
    /\ GotListing /\ ListedSize >= 1
    /\ Cardinality(EntriesWith(pre.uuid)) >= 2
    /\ ListedValues[1] # ListedValues[2]
    /\ pre.uuid # EmptyString
    /\ pre.id = EmptyString
    /\ d.key # pre.key /\ d.value # pre.value /\ d.secured # pre.secured
    /\ d.id = pre.uuid

-----------------------------------------------------------------------------
(* C4 *)

\* C4: when Read gets status 404, or 200 with a listing of size < 1, or 200
\* with a listing of size >= 1 without an entry of the record's uuid, the
\* identity is empty afterwards and Read returns no error.
C4_ReadAbsentClears ==
    (rd.called /\ ListedAbsent(rd.d.uuid)) => (d.id = EmptyString /\ ret = NoErr)

C4_Witness ==
    /\ op = "Read"
    /\ GotListing /\ ListedSize >= 1 /\ Len(ListedValues) >= 1
    /\ EntriesWith(pre.uuid) = {}
    /\ pre.id # EmptyString
    /\ d.id = EmptyString

-----------------------------------------------------------------------------
(* C5 *)

\* C5: when Read gets a status other than 200 and 404, it returns no error
\* and the record, identity included, is as Read found it.
C5_ReadOtherStatusNoChange ==
    (GetAnswered /\ gr.resp.StatusCode \notin { 200, 404 }) => (ret = NoErr /\ d = rd.d)

C5_Witness ==
    /\ op = "Read"
    /\ GetAnswered /\ gr.resp.StatusCode = 500
    /\ d.id # EmptyString
    /\ d = pre

-----------------------------------------------------------------------------
(* C6 *)

\* C6: when the PUT is answered without a transport error and with a status
\* other than 200, Update returns no error, issues no GET, and the record is
\* as it was before the call.
C6_UpdateNon200NoChange ==
    (op = "Update" /\ WriteAnswered /\ wr.resp.StatusCode # 200)
        => (ret = NoErr /\ ~IssuedGet /\ ~rd.called /\ Methods(calls) = <<"PUT">> /\ d = pre)

C6_Witness ==
    /\ op = "Update"
    /\ WriteAnswered /\ wr.resp.StatusCode = 500
    /\ d.id # EmptyString
    /\ Methods(calls) = <<"PUT">>

-----------------------------------------------------------------------------
(* C7 *)

\* the last call is a GET, it is the only one, and a write request precedes it
ReadAfterWrite ==
    /\ Len(calls) >= 2
    /\ calls[1].method \in { "POST", "PUT" }
    /\ calls[Len(calls)].method = "GET"
    /\ Cardinality({ i \in 1..Len(calls) : calls[i].method = "GET" }) = 1

\* C7 (as claimed): every Create or Update call that returns has issued a GET
\* of the collection after its write request.
C7_EveryWriteReads ==
    (op \in { "Create", "Update" } /\ ret # Panic) => ReadAfterWrite

\* the write went through: the POST was answered with a body that decodes,
\* or the PUT was answered with status 200
WriteAccepted ==
    \/ PostDecoded
    \/ op = "Update" /\ WriteAnswered /\ wr.resp.StatusCode = 200

\* C7 (amended): a Create whose POST is answered without error with a body
\* that decodes, and an Update whose PUT is answered without error with status
\* 200, invoke Read once (one GET) after the write request and before
\* returning; every other Create or Update issues no GET.
C7_AcceptedWriteReads ==
    (op \in { "Create", "Update" })
        => /\ WriteAccepted => (ReadAfterWrite /\ rd.called)
           /\ ~WriteAccepted => (~IssuedGet /\ ~rd.called)

C7_Witness ==
    /\ op = "Create"
    /\ WriteAccepted
    /\ ReadAfterWrite
    /\ ret = NoErr
    /\ d.id # EmptyString

-----------------------------------------------------------------------------
(* C8 *)

\* C8: Delete (of a record with a well-formed deployment id) issues exactly
\* one DELETE request, to the collection path followed by "/" and the record's
\* uuid, returns exactly the collaborator's error, and leaves the record alone.
C8_DeleteAddressesUuid ==
    (op = "Delete" /\ WellFormed(pre.deployment))
        => /\ Methods(calls) = <<"DELETE">>
           /\ calls[1].path = CollectionPath(parseDeploymentId(pre.deployment)) \o <<"/">> \o pre.uuid
           /\ wr.issued /\ ret = wr.err
           /\ d = pre

-----------------------------------------------------------------------------
(* C9 *)

\* C9: a Read that directly follows a Read and gets the same answer from the
\* remote leaves the record as the first Read left it and returns what the
\* first Read returned.
C9_ReadIdempotent ==
    [][(op = "Read" /\ op' = "Read" /\ gr' = gr) => (d' = d /\ ret' = ret)]_vars

C9_Witness ==
    /\ again
    /\ GotListing /\ ListedSize >= 1 /\ EntriesWith(rd.d.uuid) # {}
    /\ d.id # EmptyString
    /\ d = pre

-----------------------------------------------------------------------------
(* C10 *)

\* C10: from a fresh record on, the identity is empty or equals the uuid field.
C10_IdentityIsUuid == d.id = EmptyString \/ d.id = d.uuid

C10_Witness ==
    /\ op = "Update"
    /\ rd.called
    /\ d.id # EmptyString
    /\ d.id = d.uuid
    /\ d # pre

=============================================================================
